---- MODULE Spec2Model ----
(***************************************************************************)
(* Release manager: the deployment orchestrator (DeploymentService), the   *)
(* audit recorder (AuditService), the API handlers that write and the DORA *)
(* summary of the analytics routes, over a relational store.               *)
(*                                                                         *)
(* The store is one record of tables; a table is a function from row id to *)
(* row.  A service function works on a session: every flush writes to the  *)
(* session's transaction, nothing in the services commits.  A request      *)
(* either returns and commits its transaction, or raises, and then get_db  *)
(* closes the session, which rolls the transaction back.  An API handler   *)
(* commits by itself.  `inflight` is the request that has run its first    *)
(* query and not yet its next one, while other requests commit.            *)
(***************************************************************************)
EXTENDS Integers, Sequences, FiniteSets, TLC

VARIABLES store, last, now, inflight

vars == <<store, last, now, inflight>>

(***************************************************************************)
(* Bounds of the model.                                                    *)
(***************************************************************************)
\* operations per behaviour of the orchestrator specification
MaxOps == 3
\* operations per behaviour of the pipeline-stage specification
MaxStageOps == 3
\* deployments in a table of the metrics specification
MaxDeployments == 2
\* operations of a behaviour of the audit specification
MaxAuditOps == 3
\* requests of a behaviour of the API specification
MaxApiOps == 3
\* operations of a behaviour of the specification of promotions
MaxPromoteOps == 3
\* steps of a behaviour of the specification of a raced rollback
MaxRaceOps == 5
\* deployments in a table of the analytics specification
MaxTrendRows == 2
\* concurrent promote_release calls on one release
MaxCalls == 2
\* operations of a behaviour of the specification of one pipeline
MaxPipelineOps == 1
\* operations of a behaviour from a store without a completed release
MaxDraftOps == 3
\* instants per calendar day of the analytics specification
TicksPerDay == 2
\* the day of the month on which instant 0 falls
EpochDay == 8

(***************************************************************************)
(* Values.                                                                 *)
(***************************************************************************)
\* a nullable DateTime column that holds no value; instants are >= 1
NULL == 0
\* a nullable Text column / an Optional[str] argument that holds no value
NoText == "<None>"
\* PipelineStage.timeout_seconds as promote_release sets it
StageTimeout == 3600

Users == {1}
Environments == {1}
Services == {1, 2}
\* environment ids a caller may pass: the last one resolves to no row
EnvironmentInputs == {1, 2}
Reasons == {"bad deploy"}

\* str(uuid): the text form of an id, as the audit metadata stores it
Str(id) == <<"str", id>>

\* the stage names of promote_release, in order
stage_names == <<"build", "test", "security_scan", "deploy", "smoke_test">>

(***************************************************************************)
(* The seeded store (scripts/seed_data.py): service 1 has two completed    *)
(* releases and a draft, service 2 has one completed release, the newest.  *)
(***************************************************************************)
SeedReleases ==
    (1 :> [service_id |-> 1, version |-> "1.0.0", status |-> "completed", created_at |-> 1])
    @@ (2 :> [service_id |-> 1, version |-> "1.0.1", status |-> "completed", created_at |-> 2])
    @@ (3 :> [service_id |-> 1, version |-> "1.1.0", status |-> "draft", created_at |-> 3])
    @@ (4 :> [service_id |-> 2, version |-> "2.1.0", status |-> "completed", created_at |-> 4])

\* release ids a caller may pass: the last one resolves to no row of the
\* seeded store
ReleaseInputs == DOMAIN SeedReleases \cup {5}

\* a table is a function from row id to row; audit_logs is the sequence of
\* audit rows in the order they were written; next_id counts the ids given out
SeedStore ==
    [releases |-> SeedReleases,
     deployments |-> << >>,
     stages |-> << >>,
     rollbacks |-> << >>,
     approvals |-> << >>,
     audit_logs |-> << >>,
     schema |-> "create_all",
     next_id |-> [releases |-> Cardinality(DOMAIN SeedReleases) + 1,
                  deployments |-> 1, stages |-> 1, rollbacks |-> 1, approvals |-> 1]]

\* the instant at which the model starts: after every seeded row
StartTime == Cardinality(DOMAIN SeedReleases) + 1

\* uuid4: the id a new row of a table gets; ids are never reused
NewId(s, table) == s.next_id[table]

\* the store with row `row` inserted into `table` under a new id
Insert(s, table, row) ==
    [s EXCEPT ![table] = (NewId(s, table) :> row) @@ @,
              !.next_id[table] = @ + 1]

(***************************************************************************)
(* Results of a service call: the session's state when the call ended, the *)
(* exception it raised ("none" when it returned) and the value it returned *)
(* (the id of the row a service returns, a summary).                       *)
(***************************************************************************)
Returned(s, value) == [store |-> s, error |-> "none", value |-> value]
Raised(s, e) == [store |-> s, error |-> e, value |-> 0]

\* the flushes of the services, where a persistence error can be raised
PromoteFaults == {"none", "flush_release", "flush_deployment", "flush_create_audit",
                  "flush_stages", "flush_promote_audit"}
CreateFaults == {"none", "flush_deployment", "flush_create_audit"}
RollbackFaults == {"none", "flush_rollback", "flush_status", "flush_rollback_audit"}

(***************************************************************************)
(* AuditService.log_action: append one audit row and flush.                *)
(***************************************************************************)
\* a recorder that keeps only the latest entry of the log
log_action_overwrite(s, user_id, action, resource_type, resource_id, metadata, t) ==
    [s EXCEPT !.audit_logs =
        <<[user_id |-> user_id,
           action |-> action,
           resource_type |-> resource_type,
           resource_id |-> resource_id,
           details |-> metadata,
           created_at |-> t]>>]

log_action(s, user_id, action, resource_type, resource_id, metadata, t) ==
    [s EXCEPT !.audit_logs = Append(@,
        [user_id |-> user_id,
         action |-> action,
         resource_type |-> resource_type,
         resource_id |-> resource_id,
         details |-> metadata,
         created_at |-> t])]

(***************************************************************************)
(* AuditService.get_audit_logs: the rows that satisfy the filters, newest  *)
(* first, one page of them, and their total.  A filter applies when its    *)
(* key is present and its value is truthy.                                 *)
(***************************************************************************)
\* the columns select(AuditLog) selects: those of BaseModel and of AuditLog
AuditLogColumns ==
    <<"id", "created_at", "updated_at", "user_id", "action", "resource_type",
      "resource_id", "details", "ip_address", "user_agent">>

\* a SELECT used as one value: the database rejects it unless it selects one
\* column; of one column and no row it is NULL
scalar_subquery(columns, rows) ==
    IF Len(columns) # 1 THEN [error |-> "DBAPIError", value |-> NULL]
    ELSE IF Len(rows) = 0 THEN [error |-> "none", value |-> NULL]
    ELSE IF Len(rows) = 1 THEN [error |-> "none", value |-> rows[1][columns[1]]]
    ELSE [error |-> "DBAPIError", value |-> NULL]

\* the keys of `filters` that add a condition to the query
Conditions(filters) ==
    {key \in DOMAIN filters :
        IF key \in {"action", "resource_type"}
        THEN filters[key] \notin {NoText, ""}
        ELSE filters[key] # NULL}

Satisfies(row, filters, key) ==
    CASE key = "user_id" -> row.user_id = filters[key]
      [] key = "action" -> row.action = filters[key]
      [] key = "resource_type" -> row.resource_type = filters[key]
      [] key = "resource_id" -> row.resource_id = filters[key]
      [] key = "start_date" -> row.created_at >= filters[key]
      [] key = "end_date" -> row.created_at <= filters[key]

\* the audit rows the WHERE clause keeps, in the order they were written
Matching(s, filters) ==
    SelectSeq(s.audit_logs,
              LAMBDA row : \A key \in Conditions(filters) : Satisfies(row, filters, key))

\* ORDER BY created_at DESC: the rows of a log are written at increasing
\* instants
Newest(rows) == [i \in 1..Len(rows) |-> rows[Len(rows) + 1 - i]]

\* LIMIT limit OFFSET offset
Page(rows, limit, offset) ==
    SubSeq(rows, offset + 1, IF offset + limit < Len(rows) THEN offset + limit ELSE Len(rows))

get_audit_logs(s, filters, limit, offset) ==
    LET matching == Matching(s, filters)
        count_result == scalar_subquery(AuditLogColumns, matching)
        logs == Page(Newest(matching), limit, offset)
        actual_count == scalar_subquery(AuditLogColumns, matching)
    IN  IF count_result.error # "none" THEN Raised(s, count_result.error)
        ELSE IF actual_count.error # "none" THEN Raised(s, actual_count.error)
        ELSE Returned(s, [logs |-> logs, total |-> actual_count.value])

(***************************************************************************)
(* The foreign keys of the deployments table: an insert whose release,     *)
(* environment or user does not resolve fails at the flush.                *)
(***************************************************************************)
DeploymentForeignKeys(s, release_id, environment_id, user_id) ==
    /\ release_id \in DOMAIN s.releases
    /\ environment_id \in Environments
    /\ user_id \in Users

(***************************************************************************)
(* DeploymentService.create_deployment                                     *)
(***************************************************************************)
\* a deployment row that is stamped only when it is deployed
DeploymentRowUnstamped(release_id, environment_id, user_id, t) ==
    [release_id |-> release_id,
     environment_id |-> environment_id,
     status |-> "pending",
     deployed_by |-> user_id,
     deployed_at |-> NULL,
     completed_at |-> NULL,
     created_at |-> t]

\* the Deployment row create_deployment builds
DeploymentRow(release_id, environment_id, user_id, t) ==
    [release_id |-> release_id,
     environment_id |-> environment_id,
     status |-> "pending",
     deployed_by |-> user_id,
     deployed_at |-> t,
     completed_at |-> NULL,
     created_at |-> t]

create_deployment(s, release_id, environment_id, user_id, fault, t) ==
    LET deployment == DeploymentRow(release_id, environment_id, user_id, t)
        id == NewId(s, "deployments")
        s1 == Insert(s, "deployments", deployment)
        s2 == log_action(s1, user_id, "create_deployment", "deployment", id,
                         [release_id |-> Str(release_id),
                          environment_id |-> Str(environment_id),
                          status |-> deployment.status], t)
    IN  IF ~DeploymentForeignKeys(s, release_id, environment_id, user_id)
        THEN Raised(s, "IntegrityError")
        ELSE IF fault = "flush_deployment" THEN Raised(s, "DBAPIError")
        ELSE IF fault = "flush_create_audit" THEN Raised(s1, "DBAPIError")
        ELSE Returned(s2, id)

(***************************************************************************)
(* The PipelineStage rows promote_release adds for a deployment: one per   *)
(* stage name, idx counting from 0.                                        *)
(***************************************************************************)
\* a promote_release that numbers the stages from 1
PipelineStageRowFromOne(deployment_id, idx, stage_name) ==
    [deployment_id |-> deployment_id,
     name |-> stage_name,
     order |-> idx + 1,
     status |-> "pending",
     timeout_seconds |-> StageTimeout,
     started_at |-> NULL,
     completed_at |-> NULL,
     output |-> NoText]

PipelineStageRow(deployment_id, idx, stage_name) ==
    [deployment_id |-> deployment_id,
     name |-> stage_name,
     order |-> idx,
     status |-> "pending",
     timeout_seconds |-> StageTimeout,
     started_at |-> NULL,
     completed_at |-> NULL,
     output |-> NoText]

RECURSIVE AddStages(_, _, _)
AddStages(s, deployment_id, idx) ==
    IF idx >= Len(stage_names) THEN s
    ELSE AddStages(
            Insert(s, "stages", PipelineStageRow(deployment_id, idx, stage_names[idx + 1])),
            deployment_id, idx + 1)

(***************************************************************************)
(* DeploymentService.promote_release                                       *)
(***************************************************************************)
\* a promotion guarded as a transition of a state machine: from draft only
PromotedFromDraft(release) ==
    IF release.status = "draft" THEN [release EXCEPT !.status = "promoted"] ELSE release

\* the release row after promote_release's status write
Promoted(release) == [release EXCEPT !.status = "promoted"]

promote_release(s, release_id, target_env_id, user_id, fault, t) ==
    IF release_id \notin DOMAIN s.releases
    THEN Raised(s, "ValueError: release not found")
    ELSE
    LET s1 == [s EXCEPT !.releases[release_id] = Promoted(@)]
        created == create_deployment(s1, release_id, target_env_id, user_id, fault, t)
        s3 == AddStages(created.store, created.value, 0)
        s4 == log_action(s3, user_id, "promote_release", "release", release_id,
                         [deployment_id |-> Str(created.value),
                          target_environment_id |-> Str(target_env_id),
                          release_version |-> s1.releases[release_id].version], t)
    IN  IF fault = "flush_release" THEN Raised(s1, "DBAPIError")
        ELSE IF created.error # "none" THEN created
        ELSE IF fault = "flush_stages" THEN Raised(created.store, "DBAPIError")
        ELSE IF fault = "flush_promote_audit" THEN Raised(s3, "DBAPIError")
        ELSE Returned(s4, created.value)

(***************************************************************************)
(* The rollback-target query of execute_rollback: the releases of the same *)
(* service, other than the release itself, with status completed, newest   *)
(* first, limit 1.  Rows with equal created_at come in either order.       *)
(***************************************************************************)
\* a target query that does not exclude the release being rolled back
StableReleasesWithSelf(s, release_id) ==
    {r \in DOMAIN s.releases :
        /\ s.releases[r].service_id = s.releases[release_id].service_id
        /\ s.releases[r].status = "completed"}

StableReleases(s, release_id) ==
    {r \in DOMAIN s.releases :
        /\ s.releases[r].service_id = s.releases[release_id].service_id
        /\ r # release_id
        /\ s.releases[r].status = "completed"}

\* a target query that orders by created_at ascending
OldestReleases(s, release_id) ==
    {r \in StableReleases(s, release_id) :
        \A q \in StableReleases(s, release_id) :
            s.releases[q].created_at >= s.releases[r].created_at}

PreviousReleases(s, release_id) ==
    {r \in StableReleases(s, release_id) :
        \A q \in StableReleases(s, release_id) :
            s.releases[q].created_at <= s.releases[r].created_at}

\* an execute_rollback that leaves the release's status alone
MarkDeploymentOnly(s, deployment_id, release_id, t) ==
    [s EXCEPT !.deployments[deployment_id].status = "rolled_back",
              !.deployments[deployment_id].completed_at = t]

\* the status updates of execute_rollback on the deployment and its release
MarkRolledBack(s, deployment_id, release_id, t) ==
    [s EXCEPT !.deployments[deployment_id].status = "rolled_back",
              !.deployments[deployment_id].completed_at = t,
              !.releases[release_id].status = "rolled_back"]

(***************************************************************************)
(* DeploymentService.execute_rollback; `pick` is the row the query returns *)
(* when it returns one.                                                    *)
(***************************************************************************)
\* execute_rollback from its second query on: the deployment row was loaded
\* with release `release_id`.  The message of the error for a release that
\* does not resolve reads release.id of None.  Requests committed since the
\* deployment was loaded are seen: a deployment deleted meanwhile is met by
\* the foreign key of the rollback row.
rollback_loaded(s, deployment_id, release_id, user_id, reason, pick, fault, t) ==
    IF release_id \notin DOMAIN s.releases
    THEN Raised(s, "AttributeError")
    ELSE
    LET id == NewId(s, "rollbacks")
        s1 == Insert(s, "rollbacks",
                     [deployment_id |-> deployment_id,
                      target_release_id |-> pick,
                      reason |-> reason,
                      status |-> "in-progress",
                      initiated_by |-> user_id,
                      completed_at |-> NULL])
        s2 == MarkRolledBack(s1, deployment_id, release_id, t)
        s3 == log_action(s2, user_id, "execute_rollback", "deployment", deployment_id,
                         [rollback_id |-> Str(id),
                          from_version |-> s2.releases[release_id].version,
                          to_version |-> s2.releases[pick].version,
                          reason |-> reason], t)
    IN  IF PreviousReleases(s, release_id) = {}
        THEN Raised(s, "ValueError: no previous stable release")
        ELSE IF deployment_id \notin DOMAIN s.deployments THEN Raised(s, "IntegrityError")
        ELSE IF fault = "flush_rollback" THEN Raised(s, "DBAPIError")
        ELSE IF fault = "flush_status" THEN Raised(s1, "DBAPIError")
        ELSE IF fault = "flush_rollback_audit" THEN Raised(s2, "DBAPIError")
        ELSE Returned(s3, id)

execute_rollback(s, deployment_id, user_id, reason, pick, fault, t) ==
    IF deployment_id \notin DOMAIN s.deployments
    THEN Raised(s, "ValueError: deployment not found")
    ELSE rollback_loaded(s, deployment_id, s.deployments[deployment_id].release_id,
                         user_id, reason, pick, fault, t)

(***************************************************************************)
(* Python truth of an Optional value: None is false, a datetime is true,   *)
(* and of the strings only the empty one is false.                         *)
(***************************************************************************)
IsSet(timestamp) == timestamp # NULL
HasText(text) == text \notin {NoText, ""}

\* statuses and outputs a caller of update_pipeline_stage may pass
StatusInputs == {"in-progress", "in_progress", "completed", "failed"}
OutputInputs == {NoText, "log"}

\* a timestamp policy that stamps on every call
StampStageAlways(stage, status, t) ==
    IF status = "in-progress"
    THEN [stage EXCEPT !.started_at = t]
    ELSE IF status = "completed"
    THEN [stage EXCEPT !.completed_at = t]
    ELSE IF status = "failed"
    THEN [stage EXCEPT !.completed_at = t]
    ELSE stage

\* the timestamp policy of update_pipeline_stage, on the stage row
StampStage(stage, status, t) ==
    IF status = "in-progress" /\ ~IsSet(stage.started_at)
    THEN [stage EXCEPT !.started_at = t]
    ELSE IF status = "completed" /\ ~IsSet(stage.completed_at)
    THEN [stage EXCEPT !.completed_at = t]
    ELSE IF status = "failed" /\ ~IsSet(stage.completed_at)
    THEN [stage EXCEPT !.completed_at = t]
    ELSE stage

(***************************************************************************)
(* DeploymentService.update_pipeline_stage                                 *)
(***************************************************************************)
\* an update that writes the output argument whatever it holds
StageOutputAlways(stage, output) == [stage EXCEPT !.output = output]

\* `if output: stage.output = output`
StageOutput(stage, output) ==
    IF HasText(output) THEN [stage EXCEPT !.output = output] ELSE stage

update_pipeline_stage(s, stage_id, status, output, t) ==
    IF stage_id \notin DOMAIN s.stages
    THEN Raised(s, "ValueError: stage not found")
    ELSE
    LET stage == s.stages[stage_id]
        s1 == [s EXCEPT !.stages[stage_id] =
                            StageOutput([@ EXCEPT !.status = status], output)]
        s2 == [s1 EXCEPT !.stages[stage_id] = StampStage(@, status, t)]
    IN  Returned(s2, stage_id)

(***************************************************************************)
(* The API handlers.  A handler works on its session, commits by itself    *)
(* and ends every exception other than its own 404 in db.rollback() and a  *)
(* 500.  The store of its result is the committed store when it ends.      *)
(***************************************************************************)
\* where a handler's persistence can fail: at db.commit(), at the
\* db.refresh() that follows it
CommitFaults == {"none", "commit", "refresh"}
\* the handlers that delete do not refresh
DeleteFaults == {"none", "commit"}

\* the foreign keys of the tables Base.metadata.create_all creates: a
\* referenced row cannot go while a row references it
ForeignKeys(s) ==
    /\ \A x \in DOMAIN s.deployments :
            /\ s.deployments[x].release_id \in DOMAIN s.releases
            /\ s.deployments[x].environment_id \in Environments
    /\ \A x \in DOMAIN s.stages : s.stages[x].deployment_id \in DOMAIN s.deployments
    /\ \A x \in DOMAIN s.rollbacks :
            /\ s.rollbacks[x].deployment_id \in DOMAIN s.deployments
            /\ s.rollbacks[x].target_release_id \in DOMAIN s.releases
    /\ \A x \in DOMAIN s.approvals : s.approvals[x].deployment_id \in DOMAIN s.deployments

\* the tables of a database are created either by the application at its
\* startup (Base.metadata.create_all, from the models) or by the migration
\* 001_initial_schema; the migration alone declares UNIQUE(service_id,
\* version) on releases and ON DELETE CASCADE on the references to releases
\* and deployments (RESTRICT on a rollback's target release)
Schemas == {"create_all", "alembic"}

\* UNIQUE(service_id, version) of the migration's releases table
UniqueVersions(s) ==
    \A x, y \in DOMAIN s.releases :
        (/\ s.releases[x].service_id = s.releases[y].service_id
         /\ s.releases[x].version = s.releases[y].version) => x = y

\* what the flush of a commit is checked against
Constraints(s) ==
    /\ ForeignKeys(s)
    /\ s.schema = "alembic" => UniqueVersions(s)

\* the rows of a table whose `column` refers to a row of `referenced`
Referring(table, column, referenced) ==
    [x \in {y \in DOMAIN table : table[y][column] \in DOMAIN referenced} |-> table[x]]

\* ON DELETE CASCADE of the migration: the deployments of a deleted release
\* go with it, and so do the stages, rollbacks and approvals of a deleted
\* deployment; the tables of create_all have no such rule
OnDeleteCascade(s) ==
    IF s.schema # "alembic" THEN s
    ELSE LET deployments == Referring(s.deployments, "release_id", s.releases)
         IN  [s EXCEPT !.deployments = deployments,
                       !.stages = Referring(@, "deployment_id", deployments),
                       !.rollbacks = Referring(@, "deployment_id", deployments),
                       !.approvals = Referring(@, "deployment_id", deployments)]

\* the store without row `id` of `table`
Delete(s, table, id) ==
    [s EXCEPT ![table] = [x \in DOMAIN @ \ {id} |-> @[x]]]

\* setattr for every field of the request's data
SetFields(row, data) ==
    [field \in DOMAIN row |-> IF field \in DOMAIN data THEN data[field] ELSE row[field]]

\* the end of a handler: db.commit(), db.refresh(), the response; an
\* exception of the commit is rolled back, one of the refresh comes after
\* the commit
CommitRefresh(committed, pending, value, fault, detail) ==
    IF fault = "commit" \/ ~Constraints(pending)
    THEN Raised(committed, detail)
    ELSE IF fault = "refresh"
    THEN Raised(pending, detail)
    ELSE Returned(pending, value)

\* the end of a handler that deletes: db.commit() and the response.  A
\* deleted row that a rollback names as its target (RESTRICT), or that a row
\* still references once the cascades are done, is refused.
Commit(committed, pending, value, fault, detail) ==
    IF \/ fault = "commit"
       \/ \E x \in DOMAIN committed.rollbacks :
            committed.rollbacks[x].target_release_id \notin DOMAIN pending.releases
       \/ ~Constraints(OnDeleteCascade(pending))
    THEN Raised(committed, detail)
    ELSE Returned(OnDeleteCascade(pending), value)

\* POST /api/releases
create_release(s, service_id, version, user_id, fault, t) ==
    IF service_id \notin Services
    THEN Raised(s, "HTTP 404: Service not found")
    ELSE CommitRefresh(s, Insert(s, "releases",
                                 [service_id |-> service_id,
                                  version |-> version,
                                  status |-> "draft",
                                  created_at |-> t]),
                       NewId(s, "releases"), fault, "HTTP 500: Failed to create release")

\* a request body whose status may be any text
ReleaseUpdateAny(release_data) == TRUE

\* the ReleaseUpdate schema: the pattern of its status field
ReleaseUpdate(release_data) ==
    "status" \in DOMAIN release_data
        => release_data.status \in {"draft", "published", "deployed", "failed"}

\* PUT /api/releases/{release_id}: the body is validated before the handler
\* runs
update_release(s, release_id, release_data, fault) ==
    IF ~ReleaseUpdate(release_data)
    THEN Raised(s, "HTTP 422: Unprocessable Entity")
    ELSE IF release_id \notin DOMAIN s.releases
    THEN Raised(s, "HTTP 404: Release not found")
    ELSE CommitRefresh(s, [s EXCEPT !.releases[release_id] = SetFields(@, release_data)],
                       release_id, fault, "HTTP 500: Failed to update release")

\* DELETE /api/releases/{release_id}
delete_release(s, release_id, fault) ==
    IF release_id \notin DOMAIN s.releases
    THEN Raised(s, "HTTP 404: Release not found")
    ELSE Commit(s, Delete(s, "releases", release_id),
                release_id, fault, "HTTP 500: Failed to delete release")

\* POST /api/releases/{release_id}/deploy: the environment is not looked up
deploy_release(s, release_id, environment_id, fault) ==
    IF release_id \notin DOMAIN s.releases
    THEN Raised(s, "HTTP 404: Release not found")
    ELSE CommitRefresh(s, [s EXCEPT !.releases[release_id].status = "deployed"],
                       release_id, fault, "HTTP 500: Failed to deploy release")

\* POST /api/deployments: the row has no deployed_at
post_deployment(s, release_id, environment_id, user_id, fault, t) ==
    IF release_id \notin DOMAIN s.releases
    THEN Raised(s, "HTTP 404: Release not found")
    ELSE IF environment_id \notin Environments
    THEN Raised(s, "HTTP 404: Environment not found")
    ELSE CommitRefresh(s, Insert(s, "deployments",
                                 [release_id |-> release_id,
                                  environment_id |-> environment_id,
                                  status |-> "pending",
                                  deployed_by |-> user_id,
                                  deployed_at |-> NULL,
                                  completed_at |-> NULL,
                                  created_at |-> t]),
                       NewId(s, "deployments"), fault,
                       "HTTP 500: Failed to create deployment")

\* PUT /api/deployments/{deployment_id}
update_deployment(s, deployment_id, deployment_data, fault) ==
    IF deployment_id \notin DOMAIN s.deployments
    THEN Raised(s, "HTTP 404: Deployment not found")
    ELSE CommitRefresh(s, [s EXCEPT !.deployments[deployment_id] =
                                        SetFields(@, deployment_data)],
                       deployment_id, fault, "HTTP 500: Failed to update deployment")

\* DELETE /api/deployments/{deployment_id}:
\* db.delete of a deployment first detaches the rows of its relationship
\* `stages` (deployment_id = NULL), which the column, NOT NULL, refuses
delete_deployment(s, deployment_id, fault) ==
    IF deployment_id \notin DOMAIN s.deployments
    THEN Raised(s, "HTTP 404: Deployment not found")
    ELSE IF \E x \in DOMAIN s.stages : s.stages[x].deployment_id = deployment_id
    THEN Raised(s, "HTTP 500: Failed to delete deployment")
    ELSE Commit(s, Delete(s, "deployments", deployment_id),
                deployment_id, fault, "HTTP 500: Failed to delete deployment")

\* POST /api/deployments/{deployment_id}/approve
approve_deployment(s, deployment_id, fault) ==
    IF deployment_id \notin DOMAIN s.deployments
    THEN Raised(s, "HTTP 404: Deployment not found")
    ELSE CommitRefresh(s, [s EXCEPT !.deployments[deployment_id].status = "in_progress"],
                       deployment_id, fault, "HTTP 500: Failed to approve deployment")

\* POST /api/deployments/{deployment_id}/rollback: no Rollback row is made
rollback_deployment(s, deployment_id, fault) ==
    IF deployment_id \notin DOMAIN s.deployments
    THEN Raised(s, "HTTP 404: Deployment not found")
    ELSE CommitRefresh(s, [s EXCEPT !.deployments[deployment_id].status = "rolled_back"],
                       deployment_id, fault, "HTTP 500: Failed to rollback deployment")

\* POST /api/rollbacks
create_rollback(s, deployment_id, target_release_id, reason, user_id, fault) ==
    IF deployment_id \notin DOMAIN s.deployments
    THEN Raised(s, "HTTP 404: Deployment not found")
    ELSE IF target_release_id \notin DOMAIN s.releases
    THEN Raised(s, "HTTP 404: Target release not found")
    ELSE CommitRefresh(s, Insert(s, "rollbacks",
                                 [deployment_id |-> deployment_id,
                                  target_release_id |-> target_release_id,
                                  reason |-> reason,
                                  status |-> "pending",
                                  initiated_by |-> user_id,
                                  completed_at |-> NULL]),
                       NewId(s, "rollbacks"), fault, "HTTP 500: Failed to create rollback")

\* POST /api/approvals
create_approval(s, deployment_id, user_id, fault) ==
    IF deployment_id \notin DOMAIN s.deployments
    THEN Raised(s, "HTTP 404: Deployment not found")
    ELSE CommitRefresh(s, Insert(s, "approvals",
                                 [deployment_id |-> deployment_id,
                                  approver_id |-> user_id,
                                  status |-> "pending",
                                  notes |-> NoText,
                                  approved_at |-> NULL]),
                       NewId(s, "approvals"), fault, "HTTP 500: Failed to create approval")

\* PUT /api/approvals/{approval_id}: approved_at is stamped on approval
update_approval(s, approval_id, approval_data, fault, t) ==
    IF approval_id \notin DOMAIN s.approvals
    THEN Raised(s, "HTTP 404: Approval not found")
    ELSE LET updated == SetFields(s.approvals[approval_id], approval_data)
             stamped == IF approval_data.status = "approved"
                        THEN [updated EXCEPT !.approved_at = t]
                        ELSE updated
         IN  CommitRefresh(s, [s EXCEPT !.approvals[approval_id] = stamped],
                           approval_id, fault, "HTTP 500: Failed to update approval")

\* DELETE /api/approvals/{approval_id}
delete_approval(s, approval_id, fault) ==
    IF approval_id \notin DOMAIN s.approvals
    THEN Raised(s, "HTTP 404: Approval not found")
    ELSE Commit(s, Delete(s, "approvals", approval_id),
                approval_id, fault, "HTTP 500: Failed to delete approval")

(***************************************************************************)
(* The DORA summary (calculate_metrics_summary).  Instants are counted in  *)
(* days here; a float is kept as the exact fraction num / den, and a       *)
(* division by zero raises ZeroDivisionError.                              *)
(***************************************************************************)
Ratio(a, b) == [num |-> a, den |-> b]
Zero == Ratio(0, 1)
\* equality of two fractions with non-zero denominators
SameRatio(x, y) == x.num * y.den = y.num * x.den

\* timedelta.total_seconds() of a difference of instants
total_seconds(delta) == delta * 24 * 60 * 60

RECURSIVE Sum(_, _)
Sum(f, S) ==
    IF S = {} THEN 0
    ELSE LET x == CHOOSE y \in S : TRUE
         IN  f[x] + Sum(f, S \ {x})

\* the deployments created in [t - days, t]
InWindow(s, days, t) ==
    {d \in DOMAIN s.deployments :
        /\ s.deployments[d].created_at >= t - days
        /\ s.deployments[d].created_at <= t}

FailedDeployments(s, ds) == {d \in ds : s.deployments[d].status = "failed"}

\* a failure rate computed without the guard on the total
ChangeFailureRateUnguarded(failed, total) == Ratio(failed * 100, total)

ChangeFailureRate(failed, total) ==
    IF total > 0 THEN Ratio(failed * 100, total) ELSE Zero

\* a count of the successes that forgets the failures
SuccessfulIsTotal(total, failed) == total

SuccessfulDeployments(total, failed) == total - failed

DeploymentFrequency(total, days) ==
    IF days > 0 THEN Ratio(total, days) ELSE Zero

\* the deployments whose duration enters the mean time to recovery
Timed(s, ds) ==
    {d \in ds : IsSet(s.deployments[d].deployed_at) /\ IsSet(s.deployments[d].completed_at)}

MeanTimeToRecovery(s, ds) ==
    IF ds # {}
    THEN LET total_time ==
                Sum([d \in Timed(s, ds) |->
                        total_seconds(s.deployments[d].completed_at
                                      - s.deployments[d].deployed_at)],
                    Timed(s, ds))
         IN  Ratio(total_time, Cardinality(ds) * 60)
    ELSE Zero

LeadTime(s, ds) ==
    IF ds # {}
    THEN LET deployed == {d \in ds : IsSet(s.deployments[d].deployed_at)}
             created_to_deployed ==
                Sum([d \in deployed |->
                        total_seconds(s.deployments[d].deployed_at
                                      - s.deployments[d].created_at)],
                    deployed)
             count == Cardinality(deployed)
         IN  IF count > 0 THEN Ratio(created_to_deployed, count * 3600) ELSE Zero
    ELSE Zero

calculate_metrics_summary(s, days, t) ==
    LET deployments == InWindow(s, days, t)
        total_deployments == Cardinality(deployments)
        failed_deployments == Cardinality(FailedDeployments(s, deployments))
        summary ==
            [mean_time_to_recovery |-> MeanTimeToRecovery(s, deployments),
             deployment_frequency |-> DeploymentFrequency(total_deployments, days),
             change_failure_rate |-> ChangeFailureRate(failed_deployments, total_deployments),
             lead_time |-> LeadTime(s, deployments),
             total_deployments |-> total_deployments,
             failed_deployments |-> failed_deployments,
             successful_deployments |->
                SuccessfulDeployments(total_deployments, failed_deployments),
             period_start |-> t - days,
             period_end |-> t]
    IN  IF \/ summary.mean_time_to_recovery.den = 0
           \/ summary.deployment_frequency.den = 0
           \/ summary.change_failure_rate.den = 0
           \/ summary.lead_time.den = 0
        THEN Raised(s, "ZeroDivisionError")
        ELSE Returned(s, summary)

(***************************************************************************)
(* get_db: the session of a request.  A call that raises leaves the        *)
(* request through get_db's finally, which closes the session: the         *)
(* transaction is rolled back and the committed store stays.  A call that  *)
(* returns is committed by the request that made it.                       *)
(***************************************************************************)
\* a session whose close keeps what was flushed
SessionCloseKeepsFlushed(committed, pending) == pending

SessionClose(committed, pending) == committed

Request(committed, result) ==
    IF result.error = "none"
    THEN result.store
    ELSE SessionClose(committed, result.store)

\* what the model remembers of the last call: the operation, its arguments,
\* the exception it raised ("none" when it returned) and the value returned
Call(op, args, result) ==
    [op |-> op, error |-> result.error, value |-> result.value, args |-> args]

NoCall == [op |-> "none", error |-> "none", value |-> 0, args |-> << >>]

\* no request is between two of its queries
NoRequest == [op |-> "none"]

Init ==
    /\ store = SeedStore
    /\ last = NoCall
    /\ now = StartTime
    /\ inflight = NoRequest

(***************************************************************************)
(* The operations.  Every call takes time: the clock advances with it.     *)
(***************************************************************************)
PromoteRelease ==
    \E release_id \in ReleaseInputs, target_env_id \in EnvironmentInputs,
       user_id \in Users, fault \in PromoteFaults :
        LET result == promote_release(store, release_id, target_env_id, user_id, fault, now)
        IN  /\ store' = Request(store, result)
            /\ last' = Call("promote_release",
                            [release_id |-> release_id,
                             target_env_id |-> target_env_id,
                             user_id |-> user_id], result)
            /\ now' = now + 1
            /\ UNCHANGED inflight

CreateDeployment ==
    \E release_id \in ReleaseInputs, environment_id \in EnvironmentInputs,
       user_id \in Users, fault \in CreateFaults :
        LET result == create_deployment(store, release_id, environment_id, user_id, fault, now)
        IN  /\ store' = Request(store, result)
            /\ last' = Call("create_deployment",
                            [release_id |-> release_id,
                             environment_id |-> environment_id,
                             user_id |-> user_id], result)
            /\ now' = now + 1
            /\ UNCHANGED inflight

\* deployment ids a caller may pass: the last one resolves to no row
DeploymentInputs(s) == DOMAIN s.deployments \cup {NewId(s, "deployments")}

\* the row the rollback-target query returns for a release, 0 when it
\* returns none
ReleasePicks(s, release_id) ==
    IF release_id \in DOMAIN s.releases /\ PreviousReleases(s, release_id) # {}
    THEN PreviousReleases(s, release_id)
    ELSE {0}

Picks(s, deployment_id) ==
    IF deployment_id \in DOMAIN s.deployments
    THEN ReleasePicks(s, s.deployments[deployment_id].release_id)
    ELSE {0}

ExecuteRollback ==
    \E deployment_id \in DeploymentInputs(store), user_id \in Users,
       reason \in Reasons, fault \in RollbackFaults :
        \E pick \in Picks(store, deployment_id) :
        LET result == execute_rollback(store, deployment_id, user_id, reason, pick, fault, now)
        IN  /\ store' = Request(store, result)
            /\ last' = Call("execute_rollback",
                            [deployment_id |-> deployment_id,
                             user_id |-> user_id,
                             reason |-> reason,
                             target |-> pick], result)
            /\ now' = now + 1
            /\ UNCHANGED inflight

\* an execute_rollback request runs its first query: the deployment is
\* loaded into the session; requests of other sessions may commit before
\* the request goes on
BeginRollback ==
    \E deployment_id \in DOMAIN store.deployments, user_id \in Users, reason \in Reasons :
        /\ inflight = NoRequest
        /\ inflight' = [op |-> "execute_rollback",
                        deployment_id |-> deployment_id,
                        release_id |-> store.deployments[deployment_id].release_id,
                        user_id |-> user_id,
                        reason |-> reason]
        /\ now' = now + 1
        /\ UNCHANGED <<store, last>>

\* the request goes on from its second query, on the store as committed by now
FinishRollback ==
    /\ inflight # NoRequest
    /\ \E fault \in RollbackFaults, pick \in ReleasePicks(store, inflight.release_id) :
        LET result == rollback_loaded(store, inflight.deployment_id, inflight.release_id,
                                      inflight.user_id, inflight.reason, pick, fault, now)
        IN  /\ store' = Request(store, result)
            /\ last' = Call("execute_rollback",
                            [deployment_id |-> inflight.deployment_id,
                             user_id |-> inflight.user_id,
                             reason |-> inflight.reason,
                             target |-> pick], result)
            /\ now' = now + 1
            /\ inflight' = NoRequest

CreateRollback ==
    \E deployment_id \in DeploymentInputs(store), target_release_id \in ReleaseInputs,
       user_id \in Users, reason \in Reasons :
        \E fault \in CommitFaults :
        LET result == create_rollback(store, deployment_id, target_release_id, reason,
                                      user_id, fault)
        IN  /\ store' = result.store
            /\ last' = Call("create_rollback",
                            [deployment_id |-> deployment_id,
                             target_release_id |-> target_release_id,
                             user_id |-> user_id,
                             reason |-> reason], result)
            /\ now' = now + 1
            /\ UNCHANGED inflight

\* the inputs of the API handlers
ServiceInputs == {1, 3}
VersionInputs == {"1.0.0", "3.0.0"}
ReleaseUpdates ==
    {[status |-> "published"], [status |-> "failed"], [status |-> "completed"],
     [version |-> "1.0.0"]}
DeploymentUpdates == {[status |-> "completed"], [status |-> "failed"]}
ApprovalUpdates == {[status |-> "approved"], [status |-> "rejected", notes |-> "no"]}
ApprovalInputs(s) == DOMAIN s.approvals \cup {NewId(s, "approvals")}

CreateRelease ==
    \E service_id \in ServiceInputs, version \in VersionInputs, user_id \in Users,
       fault \in CommitFaults :
        LET result == create_release(store, service_id, version, user_id, fault, now)
        IN  /\ store' = result.store
            /\ last' = Call("create_release",
                            [service_id |-> service_id, version |-> version,
                             user_id |-> user_id], result)
            /\ now' = now + 1
            /\ UNCHANGED inflight

UpdateRelease ==
    \E release_id \in ReleaseInputs, release_data \in ReleaseUpdates,
       fault \in CommitFaults :
        LET result == update_release(store, release_id, release_data, fault)
        IN  /\ store' = result.store
            /\ last' = Call("update_release",
                            [release_id |-> release_id, release_data |-> release_data],
                            result)
            /\ now' = now + 1
            /\ UNCHANGED inflight

DeleteRelease ==
    \E release_id \in ReleaseInputs, fault \in DeleteFaults :
        LET result == delete_release(store, release_id, fault)
        IN  /\ store' = result.store
            /\ last' = Call("delete_release", [release_id |-> release_id], result)
            /\ now' = now + 1
            /\ UNCHANGED inflight

DeployRelease ==
    \E release_id \in ReleaseInputs, environment_id \in EnvironmentInputs,
       fault \in CommitFaults :
        LET result == deploy_release(store, release_id, environment_id, fault)
        IN  /\ store' = result.store
            /\ last' = Call("deploy_release",
                            [release_id |-> release_id, environment_id |-> environment_id],
                            result)
            /\ now' = now + 1
            /\ UNCHANGED inflight

PostDeployment ==
    \E release_id \in ReleaseInputs, environment_id \in EnvironmentInputs,
       user_id \in Users, fault \in CommitFaults :
        LET result == post_deployment(store, release_id, environment_id, user_id, fault, now)
        IN  /\ store' = result.store
            /\ last' = Call("post_deployment",
                            [release_id |-> release_id, environment_id |-> environment_id,
                             user_id |-> user_id], result)
            /\ now' = now + 1
            /\ UNCHANGED inflight

UpdateDeployment ==
    \E deployment_id \in DeploymentInputs(store), deployment_data \in DeploymentUpdates,
       fault \in CommitFaults :
        LET result == update_deployment(store, deployment_id, deployment_data, fault)
        IN  /\ store' = result.store
            /\ last' = Call("update_deployment",
                            [deployment_id |-> deployment_id,
                             deployment_data |-> deployment_data], result)
            /\ now' = now + 1
            /\ UNCHANGED inflight

DeleteDeployment ==
    \E deployment_id \in DeploymentInputs(store), fault \in DeleteFaults :
        LET result == delete_deployment(store, deployment_id, fault)
        IN  /\ store' = result.store
            /\ last' = Call("delete_deployment", [deployment_id |-> deployment_id], result)
            /\ now' = now + 1
            /\ UNCHANGED inflight

ApproveDeployment ==
    \E deployment_id \in DeploymentInputs(store), fault \in CommitFaults :
        LET result == approve_deployment(store, deployment_id, fault)
        IN  /\ store' = result.store
            /\ last' = Call("approve_deployment", [deployment_id |-> deployment_id], result)
            /\ now' = now + 1
            /\ UNCHANGED inflight

RollbackDeployment ==
    \E deployment_id \in DeploymentInputs(store), fault \in CommitFaults :
        LET result == rollback_deployment(store, deployment_id, fault)
        IN  /\ store' = result.store
            /\ last' = Call("rollback_deployment", [deployment_id |-> deployment_id], result)
            /\ now' = now + 1
            /\ UNCHANGED inflight

CreateApproval ==
    \E deployment_id \in DeploymentInputs(store), user_id \in Users,
       fault \in CommitFaults :
        LET result == create_approval(store, deployment_id, user_id, fault)
        IN  /\ store' = result.store
            /\ last' = Call("create_approval",
                            [deployment_id |-> deployment_id, user_id |-> user_id], result)
            /\ now' = now + 1
            /\ UNCHANGED inflight

UpdateApproval ==
    \E approval_id \in ApprovalInputs(store), approval_data \in ApprovalUpdates,
       fault \in CommitFaults :
        LET result == update_approval(store, approval_id, approval_data, fault, now)
        IN  /\ store' = result.store
            /\ last' = Call("update_approval",
                            [approval_id |-> approval_id, approval_data |-> approval_data],
                            result)
            /\ now' = now + 1
            /\ UNCHANGED inflight

DeleteApproval ==
    \E approval_id \in ApprovalInputs(store), fault \in DeleteFaults :
        LET result == delete_approval(store, approval_id, fault)
        IN  /\ store' = result.store
            /\ last' = Call("delete_approval", [approval_id |-> approval_id], result)
            /\ now' = now + 1
            /\ UNCHANGED inflight

\* stage ids a caller may pass: the last one resolves to no row
StageInputs(s) == DOMAIN s.stages \cup {NewId(s, "stages")}

UpdatePipelineStage ==
    \E stage_id \in StageInputs(store), status \in StatusInputs, output \in OutputInputs :
        LET result == update_pipeline_stage(store, stage_id, status, output, now)
        IN  /\ store' = Request(store, result)
            /\ last' = Call("update_pipeline_stage",
                            [stage_id |-> stage_id,
                             status |-> status,
                             output |-> output], result)
            /\ now' = now + 1
            /\ UNCHANGED inflight

\* the filters, limits and offsets a caller may pass
FilterInputs ==
    {[resource_type |-> resource_type, resource_id |-> resource_id] :
        resource_type \in {"deployment", "release"}, resource_id \in 1..2}
    \cup {[resource_type |-> ""], [action |-> "create_deployment", user_id |-> NULL]}
LimitInputs == {1, 100}
OffsetInputs == {0, 1}

GetAuditLogs ==
    \E filters \in FilterInputs, limit \in LimitInputs, offset \in OffsetInputs :
        LET result == get_audit_logs(store, filters, limit, offset)
        IN  /\ store' = Request(store, result)
            /\ last' = Call("get_audit_logs",
                            [filters |-> filters, limit |-> limit, offset |-> offset],
                            result)
            /\ now' = now + 1
            /\ UNCHANGED inflight

(***************************************************************************)
(* The orchestrator: promotions, deployments and rollbacks.                *)
(***************************************************************************)
\* the behaviours are cut after `ops` operations
Within(ops) == now < StartTime + ops

Next ==
    \/ Within(MaxOps) /\ PromoteRelease
    \/ Within(MaxOps) /\ CreateDeployment
    \/ Within(MaxOps) /\ ExecuteRollback
    \/ Within(MaxOps) /\ CreateRollback

Spec == Init /\ [][Next]_vars

(***************************************************************************)
(* The pipeline stages of promoted releases.                               *)
(***************************************************************************)
NextStages ==
    \/ Within(MaxStageOps) /\ PromoteRelease
    \/ Within(MaxStageOps) /\ UpdatePipelineStage

SpecStages == Init /\ [][NextStages]_vars

(***************************************************************************)
(* The audit recorder and its reader.                                      *)
(***************************************************************************)
NextAudit ==
    \/ Within(MaxAuditOps) /\ CreateDeployment
    \/ Within(MaxAuditOps) /\ PromoteRelease
    \/ Within(MaxAuditOps) /\ GetAuditLogs

SpecAudit == Init /\ [][NextAudit]_vars

(***************************************************************************)
(* The API: the handlers that write.                                       *)
(***************************************************************************)
NextApi ==
    \/ Within(MaxApiOps) /\ CreateRelease
    \/ Within(MaxApiOps) /\ UpdateRelease
    \/ Within(MaxApiOps) /\ DeleteRelease
    \/ Within(MaxApiOps) /\ DeployRelease
    \/ Within(MaxApiOps) /\ PostDeployment
    \/ Within(MaxApiOps) /\ UpdateDeployment
    \/ Within(MaxApiOps) /\ DeleteDeployment
    \/ Within(MaxApiOps) /\ ApproveDeployment
    \/ Within(MaxApiOps) /\ RollbackDeployment
    \/ Within(MaxApiOps) /\ CreateRollback
    \/ Within(MaxApiOps) /\ CreateApproval
    \/ Within(MaxApiOps) /\ UpdateApproval
    \/ Within(MaxApiOps) /\ DeleteApproval

\* the API over a database of either schema
InitApi ==
    /\ \E schema \in Schemas : store = [SeedStore EXCEPT !.schema = schema]
    /\ last = NoCall
    /\ now = StartTime
    /\ inflight = NoRequest

SpecApi == InitApi /\ [][NextApi]_vars

(***************************************************************************)
(* A rollback among the requests of other sessions (READ COMMITTED: every  *)
(* query of a transaction sees what is committed when it runs).            *)
(***************************************************************************)
NextRace ==
    \/ Within(MaxRaceOps) /\ CreateDeployment
    \/ Within(MaxRaceOps) /\ ExecuteRollback
    \/ Within(MaxRaceOps) /\ BeginRollback
    \/ Within(MaxRaceOps) /\ DeleteDeployment
    \/ Within(MaxRaceOps) /\ DeleteRelease
    \/ Within(MaxRaceOps) /\ FinishRollback

SpecRace == Init /\ [][NextRace]_vars

(***************************************************************************)
(* Promotions of releases in every status the operations can give them.    *)
(***************************************************************************)
NextPromote ==
    \/ Within(MaxPromoteOps) /\ PromoteRelease
    \/ Within(MaxPromoteOps) /\ UpdateRelease
    \/ Within(MaxPromoteOps) /\ DeployRelease
    \/ Within(MaxPromoteOps) /\ ExecuteRollback

SpecPromote == Init /\ [][NextPromote]_vars

(***************************************************************************)
(* The metrics aggregator, over every small table of deployments.          *)
(***************************************************************************)
\* the deployments a table of the metrics specification is drawn from
MetricRows ==
    {[release_id |-> 1, environment_id |-> 1, status |-> status, deployed_by |-> 1,
      deployed_at |-> deployed_at, completed_at |-> completed_at,
      created_at |-> created_at] :
        status \in {"pending", "completed", "failed", "rolled_back"},
        created_at \in {1, 3},
        deployed_at \in {NULL, 3},
        completed_at \in {NULL, 4, 5}}

\* window lengths a caller may pass
DaysInputs == {0, 1, 2, 4}

InitMetrics ==
    /\ \E n \in 0..MaxDeployments :
        \E rows \in [1..n -> MetricRows] :
            store = [SeedStore EXCEPT !.deployments = rows,
                                      !.next_id.deployments = n + 1]
    /\ last = NoCall
    /\ now = StartTime
    /\ inflight = NoRequest

MetricsSummary ==
    \E days \in DaysInputs :
        LET result == calculate_metrics_summary(store, days, now)
        IN  /\ last.op = "none"
            /\ store' = Request(store, result)
            /\ last' = Call("calculate_metrics_summary", [days |-> days], result)
            /\ now' = now
            /\ UNCHANGED inflight

NextMetrics == MetricsSummary

SpecMetrics == InitMetrics /\ [][NextMetrics]_vars

(***************************************************************************)
(* The operations that write a release's status, from a store whose        *)
(* releases are all as create_release makes them.                          *)
(***************************************************************************)
InitDraft ==
    /\ store = [SeedStore EXCEPT
                    !.releases = [r \in DOMAIN @ |-> [@[r] EXCEPT !.status = "draft"]]]
    /\ last = NoCall
    /\ now = StartTime
    /\ inflight = NoRequest

NextDraft ==
    \/ Within(MaxDraftOps) /\ CreateRelease
    \/ Within(MaxDraftOps) /\ UpdateRelease
    \/ Within(MaxDraftOps) /\ DeployRelease
    \/ Within(MaxDraftOps) /\ PromoteRelease
    \/ Within(MaxDraftOps) /\ ExecuteRollback

SpecDraft == InitDraft /\ [][NextDraft]_vars

(***************************************************************************)
(* One pipeline: the stages of a promoted release, any of them completed.  *)
(***************************************************************************)
\* the store after update_pipeline_stage(stage, "completed", "log") on every
\* stage of `stages`
RECURSIVE Completed(_, _, _)
Completed(s, stages, t) ==
    IF stages = {} THEN s
    ELSE LET x == CHOOSE y \in stages : TRUE
         IN  Completed(update_pipeline_stage(s, x, "completed", "log", t).store,
                       stages \ {x}, t)

InitPipeline ==
    /\ \E release_id \in DOMAIN SeedReleases :
        LET promoted == promote_release(SeedStore, release_id, 1, 1, "none", StartTime).store
        IN  \E stages \in SUBSET DOMAIN promoted.stages :
                store = Completed(promoted, stages, StartTime)
    /\ last = NoCall
    /\ now = StartTime
    /\ inflight = NoRequest

NextPipeline == Within(MaxPipelineOps) /\ UpdatePipelineStage

SpecPipeline == InitPipeline /\ [][NextPipeline]_vars

(***************************************************************************)
(* Concurrent promote_release calls on one release, each in a session and  *)
(* a transaction of its own (READ COMMITTED).  `store` is what is          *)
(* committed; a call's `view` is the committed store as its SELECT found   *)
(* it, plus the call's own flushed writes.  The UPDATE of the release row  *)
(* takes the row's lock until the transaction ends; the INSERTs wait for   *)
(* nothing.  Ids are uuid4 values: no two rows get the same one, whichever *)
(* session makes them.                                                     *)
(***************************************************************************)
Calls == 1..MaxCalls

\* a call that has not run its first statement; pc goes through start,
\* loaded, flushed, created, staged, audited and done
Idle == [pc |-> "start", view |-> SeedStore, base |-> 0, locked |-> FALSE, deployment |-> 0]

\* the view of a session with the ids given out so far
WithIds(view, committed) == [view EXCEPT !.next_id = committed.next_id]

\* the rows a session inserted into a table
NewRows(mine, committed) ==
    [x \in DOMAIN mine \ DOMAIN committed |-> mine[x]]

\* a commit that replaces what was committed by the session's view
CommitLastWriter(committed, view, base, release_id, locked) ==
    [view EXCEPT !.next_id = committed.next_id]

\* session.commit(): the session's UPDATE and INSERTs become visible
CommitSession(committed, view, base, release_id, locked) ==
    [committed EXCEPT
        !.releases[release_id] = IF locked THEN view.releases[release_id] ELSE @,
        !.deployments = NewRows(view.deployments, @) @@ @,
        !.stages = NewRows(view.stages, @) @@ @,
        !.audit_logs = @ \o SubSeq(view.audit_logs, base + 1, Len(view.audit_logs))]

\* another transaction holds the lock of the release row
RowLocked(c) ==
    \E o \in Calls \ {c} : inflight.calls[o].locked /\ inflight.calls[o].pc # "done"

Running(c) == inflight # NoRequest /\ inflight.op = "promote_release"

Step(c, call) ==
    inflight' = [inflight EXCEPT !.calls[c] = call]

\* the requests arrive
AcceptPromotions ==
    \E release_id \in DOMAIN store.releases, target_env_id \in Environments,
       user_id \in Users :
        /\ inflight = NoRequest
        /\ last.op = "none"
        /\ inflight' = [op |-> "promote_release",
                        release_id |-> release_id,
                        target_env_id |-> target_env_id,
                        user_id |-> user_id,
                        calls |-> [c \in Calls |-> Idle]]
        /\ UNCHANGED <<store, last, now>>

\* select(Release).where(Release.id == release_id)
PromoteSelect(c) ==
    /\ Running(c)
    /\ inflight.calls[c].pc = "start"
    /\ Step(c, [inflight.calls[c] EXCEPT !.pc = "loaded",
                                         !.view = store,
                                         !.base = Len(store.audit_logs)])
    /\ UNCHANGED <<store, last, now>>

\* release.status = "promoted"; flush: an UPDATE when the loaded status
\* differs, which waits for the lock of the row
PromoteFlushRelease(c) ==
    LET call == inflight.calls[c]
        release == call.view.releases[inflight.release_id]
        dirty == Promoted(release) # release
    IN  /\ Running(c)
        /\ call.pc = "loaded"
        /\ dirty => ~RowLocked(c)
        /\ Step(c, [call EXCEPT !.pc = "flushed",
                                !.view.releases[inflight.release_id] = Promoted(@),
                                !.locked = dirty])
        /\ UNCHANGED <<store, last, now>>

\* DeploymentService.create_deployment
PromoteCreate(c) ==
    LET call == inflight.calls[c]
        created == create_deployment(WithIds(call.view, store), inflight.release_id,
                                     inflight.target_env_id, inflight.user_id, "none", now)
    IN  /\ Running(c)
        /\ call.pc = "flushed"
        /\ created.error = "none"
        /\ Step(c, [call EXCEPT !.pc = "created",
                                !.view = created.store,
                                !.deployment = created.value])
        /\ store' = WithIds(store, created.store)
        /\ UNCHANGED <<last, now>>

\* the five stages and their flush
PromoteStages(c) ==
    LET call == inflight.calls[c]
        staged == AddStages(WithIds(call.view, store), call.deployment, 0)
    IN  /\ Running(c)
        /\ call.pc = "created"
        /\ Step(c, [call EXCEPT !.pc = "staged", !.view = staged])
        /\ store' = WithIds(store, staged)
        /\ UNCHANGED <<last, now>>

\* AuditService.log_action of the promotion
PromoteAudit(c) ==
    LET call == inflight.calls[c]
        logged == log_action(call.view, inflight.user_id, "promote_release", "release",
                             inflight.release_id,
                             [deployment_id |-> Str(call.deployment),
                              target_environment_id |-> Str(inflight.target_env_id),
                              release_version |->
                                call.view.releases[inflight.release_id].version], now)
    IN  /\ Running(c)
        /\ call.pc = "staged"
        /\ Step(c, [call EXCEPT !.pc = "audited", !.view = logged])
        /\ UNCHANGED <<store, last, now>>

\* the call returns and its transaction is committed
PromoteCommit(c) ==
    LET call == inflight.calls[c]
    IN  /\ Running(c)
        /\ call.pc = "audited"
        /\ store' = CommitSession(store, call.view, call.base, inflight.release_id,
                                  call.locked)
        /\ last' = Call("promote_release",
                        [release_id |-> inflight.release_id,
                         target_env_id |-> inflight.target_env_id,
                         user_id |-> inflight.user_id],
                        Returned(store', call.deployment))
        /\ Step(c, [call EXCEPT !.pc = "done", !.view = SeedStore])
        /\ UNCHANGED now

NextConcurrent ==
    \/ AcceptPromotions
    \/ \E c \in Calls : PromoteSelect(c)
    \/ \E c \in Calls : PromoteFlushRelease(c)
    \/ \E c \in Calls : PromoteCreate(c)
    \/ \E c \in Calls : PromoteStages(c)
    \/ \E c \in Calls : PromoteAudit(c)
    \/ \E c \in Calls : PromoteCommit(c)

\* every call that can take a step eventually takes one
SpecConcurrent == Init /\ [][NextConcurrent]_vars /\ WF_vars(NextConcurrent)

(***************************************************************************)
(* The analytics routes (api/routes/analytics.py) over every small table   *)
(* of deployments.  Instants of this specification count fractions of a    *)
(* day, so that two instants can fall on one calendar date.                *)
(***************************************************************************)
timedelta(days) == days * TicksPerDay

\* datetime.date(): the calendar day an instant falls on
date(instant) == EpochDay + instant \div TicksPerDay

\* date.isoformat(): zero-padded text of fixed width, here the two digits
\* of the day
isoformat(day) == <<day \div 10, day % 10>>

\* str.__lt__ on two texts of two characters
StrLess(a, b) == a[1] < b[1] \/ (a[1] = b[1] /\ a[2] < b[2])

\* the deployments of `select(Deployment).where(created_at >= start_date)`
CreatedSince(s, start_date) ==
    {d \in DOMAIN s.deployments : s.deployments[d].created_at >= start_date}

\* a breakdown that counts a rolled back deployment as failed
TrendBucketRolledBackFails(status) ==
    IF status = "completed" THEN "successful"
    ELSE IF status \in {"failed", "rolled_back"} THEN "failed"
    ELSE "pending"

\* the counter of a trends entry that a deployment of `status` adds to
TrendBucket(status) ==
    IF status = "completed" THEN "successful"
    ELSE IF status = "failed" THEN "failed"
    ELSE "pending"

\* sorted(entries, key = date): the entries have different dates
RECURSIVE SortedByDate(_)
SortedByDate(entries) ==
    IF entries = {} THEN << >>
    ELSE LET first == CHOOSE e \in entries :
                        \A o \in entries \ {e} : StrLess(e.date, o.date)
         IN  <<first>> \o SortedByDate(entries \ {first})

get_deployment_trends(s, days, t) ==
    LET deployments == CreatedSince(s, t - timedelta(days))
        date_key(d) == isoformat(date(s.deployments[d].created_at))
        Count(key, bucket) ==
            Cardinality({d \in deployments :
                            /\ date_key(d) = key
                            /\ TrendBucket(s.deployments[d].status) = bucket})
        trends ==
            {[date |-> key,
              total |-> Cardinality({d \in deployments : date_key(d) = key}),
              successful |-> Count(key, "successful"),
              failed |-> Count(key, "failed"),
              pending |-> Count(key, "pending")] :
                key \in {date_key(d) : d \in deployments}}
    IN  Returned(s, SortedByDate(trends))

\* uuid4: the ids of two tables are different values
Uuid(table, id) == <<table, id>>

\* `.cast(int)` hands the Python builtin int to a parameter that takes a
\* SQLAlchemy type; the repository pins no SQLAlchemy version, and the
\* statement either fails when it is compiled or casts to an integer
CastOutcomes == {"integer", "raises"}

\* select(left, count, sum).join(Deployment, on, isouter=True)
\*     .where(Deployment.created_at >= start_date).group_by(left):
\* the WHERE drops the rows of the outer join that matched no deployment
\* `on` holds the pairs <<row of left, deployment>> of the ON clause
GroupedMetrics(s, left, on, start_date, label) ==
    LET Joined(x) == {d \in CreatedSince(s, start_date) : <<x, d>> \in on}
        Group(x) ==
            LET total == Cardinality(Joined(x))
                successful ==
                    Cardinality({d \in Joined(x) : s.deployments[d].status = "completed"})
            IN  [id |-> Str(x),
                 kind |-> label,
                 total_deployments |-> total,
                 successful_deployments |-> successful,
                 failed_deployments |-> total - successful,
                 failure_rate |->
                    IF total > 0 THEN Ratio((total - successful) * 100, total) ELSE Zero]
    IN  {Group(x) : x \in {y \in left : Joined(y) # {}}}

\* the orders sorted(metrics, key = total_deployments, reverse = True) can
\* give, the order of the rows of the query being the database's
RECURSIVE Orders(_)
Orders(metrics) ==
    IF metrics = {} THEN {<< >>}
    ELSE UNION {{<<m>> \o rest : rest \in Orders(metrics \ {m})} :
                    m \in {x \in metrics :
                            \A o \in metrics : o.total_deployments <= x.total_deployments}}

get_metrics_by_service(s, days, cast, t) ==
    IF cast = "raises"
    THEN Raised(s, "HTTP 500: Failed to get service metrics")
    ELSE Returned(s, GroupedMetrics(s, Services,
                        {<<service, d>> \in Services \X DOMAIN s.deployments :
                            Uuid("services", service)
                                = Uuid("releases", s.deployments[d].release_id)},
                        t - timedelta(days), "service"))

get_metrics_by_environment(s, days, cast, t) ==
    IF cast = "raises"
    THEN Raised(s, "HTTP 500: Failed to get environment metrics")
    ELSE Returned(s, GroupedMetrics(s, Environments,
                        {<<environment, d>> \in Environments \X DOMAIN s.deployments :
                            Uuid("environments", environment)
                                = Uuid("environments", s.deployments[d].environment_id)},
                        t - timedelta(days), "environment"))

\* the deployments a table of the analytics specification is drawn from
TrendRows ==
    {[release_id |-> 1, environment_id |-> 1, status |-> status, deployed_by |-> 1,
      deployed_at |-> NULL, completed_at |-> NULL, created_at |-> created_at] :
        status \in {"pending", "completed", "failed", "rolled_back"},
        created_at \in 1..StartTime}

\* the `days` query parameter: Query(30, ge=1, le=365)
TrendDays == {1, 2}

InitAnalytics ==
    /\ \E n \in 0..MaxTrendRows :
        \E rows \in [1..n -> TrendRows] :
            store = [SeedStore EXCEPT !.deployments = rows,
                                      !.next_id.deployments = n + 1]
    /\ last = NoCall
    /\ now = StartTime
    /\ inflight = NoRequest

GetDeploymentTrends ==
    \E days \in TrendDays :
        LET result == get_deployment_trends(store, days, now)
        IN  /\ last.op = "none"
            /\ store' = store
            /\ last' = Call("get_deployment_trends", [days |-> days], result)
            /\ now' = now
            /\ UNCHANGED inflight

GetMetricsByService ==
    \E days \in TrendDays, cast \in CastOutcomes :
        LET result == get_metrics_by_service(store, days, cast, now)
        IN  /\ last.op = "none"
            /\ store' = store
            /\ \E metrics \in Orders(IF result.error = "none" THEN result.value ELSE {}) :
                    last' = Call("get_metrics_by_service", [days |-> days],
                                 [result EXCEPT !.value = metrics])
            /\ now' = now
            /\ UNCHANGED inflight

GetMetricsByEnvironment ==
    \E days \in TrendDays, cast \in CastOutcomes :
        LET result == get_metrics_by_environment(store, days, cast, now)
        IN  /\ last.op = "none"
            /\ store' = store
            /\ \E metrics \in Orders(IF result.error = "none" THEN result.value ELSE {}) :
                    last' = Call("get_metrics_by_environment", [days |-> days],
                                 [result EXCEPT !.value = metrics])
            /\ now' = now
            /\ UNCHANGED inflight

NextAnalytics ==
    \/ GetDeploymentTrends
    \/ GetMetricsByService
    \/ GetMetricsByEnvironment

SpecAnalytics == InitAnalytics /\ [][NextAnalytics]_vars

(***************************************************************************)
(* The claims.                                                             *)
(***************************************************************************)
PromoteReturned(l) == l.op = "promote_release" /\ l.error = "none"
RollbackReturned(l) == l.op = "execute_rollback" /\ l.error = "none"

\* C1: after every promote_release that returns, the deployment it returns
\* owns exactly five stages, named build, test, security_scan, deploy and
\* smoke_test with order 0..4, each pending with timeout 3600, and these are
\* the only stage rows the call created.
C1_PromoteSeedsFiveStages ==
    [][PromoteReturned(last') =>
        LET created == DOMAIN store'.stages \ DOMAIN store.stages
            owned == {x \in DOMAIN store'.stages :
                        store'.stages[x].deployment_id = last'.value}
            Has(order, name) ==
                Cardinality({x \in owned :
                    /\ store'.stages[x].order = order
                    /\ store'.stages[x].name = name
                    /\ store'.stages[x].status = "pending"
                    /\ store'.stages[x].timeout_seconds = 3600}) = 1
        IN  /\ last'.value \in DOMAIN store'.deployments \ DOMAIN store.deployments
            /\ created = owned
            /\ Cardinality(owned) = 5
            /\ Has(0, "build")
            /\ Has(1, "test")
            /\ Has(2, "security_scan")
            /\ Has(3, "deploy")
            /\ Has(4, "smoke_test")]_vars

C1_Witness ==
    /\ PromoteReturned(last)
    /\ Cardinality(DOMAIN store.deployments) = 2
    /\ Cardinality(DOMAIN store.stages) = 10

\* C2: the target execute_rollback chooses for a deployment of release R is
\* a release of R's service, other than R, with status completed, and no such
\* release has a greater created_at.
C2_TargetIsNewestCompletedSibling ==
    [][RollbackReturned(last') =>
        LET R == store.deployments[last'.args.deployment_id].release_id
            T == store'.rollbacks[last'.value].target_release_id
        IN  /\ T \in DOMAIN store.releases
            /\ T # R
            /\ store.releases[T].service_id = store.releases[R].service_id
            /\ store.releases[T].status = "completed"
            /\ \A q \in DOMAIN store.releases :
                    (/\ q # R
                     /\ store.releases[q].service_id = store.releases[R].service_id
                     /\ store.releases[q].status = "completed")
                    => store.releases[q].created_at <= store.releases[T].created_at]_vars

\* a deployment of the draft release 3 was rolled back to release 2, the newer
\* of the two completed releases of its service
C2_Witness ==
    /\ RollbackReturned(last)
    /\ store.deployments[last.args.deployment_id].release_id = 3
    /\ store.rollbacks[last.value].target_release_id = 2
    /\ store.releases[1].status = "completed"

\* C3: when release R has no other completed release in its service,
\* execute_rollback on a deployment of R raises 'no previous stable release'
\* and the store is as before: no rollback row, no status or completed_at
\* change, no audit entry.
C3_NoStableReleaseFailsUnchanged ==
    [][(/\ last'.op = "execute_rollback"
        /\ last'.args.deployment_id \in DOMAIN store.deployments
        /\ LET R == store.deployments[last'.args.deployment_id].release_id
           IN  /\ R \in DOMAIN store.releases
               /\ ~\E q \in DOMAIN store.releases :
                      /\ q # R
                      /\ store.releases[q].service_id = store.releases[R].service_id
                      /\ store.releases[q].status = "completed")
       => /\ last'.error = "ValueError: no previous stable release"
          /\ store' = store]_vars

\* the rollback of a deployment of release 4, itself completed and alone in
\* its service, was refused
C3_Witness ==
    /\ last.op = "execute_rollback"
    /\ last.error = "ValueError: no previous stable release"
    /\ last.args.deployment_id \in DOMAIN store.deployments
    /\ store.deployments[last.args.deployment_id].release_id = 4
    /\ store.releases[4].status = "completed"

\* C4: a promote_release that fails after the release lookup (at the
\* deployment insert, a stage insert or an audit insert) leaves the committed
\* store exactly as it was before the call.
C4_PromoteIsAtomic ==
    [][(/\ last'.op = "promote_release"
        /\ last'.error \in {"IntegrityError", "DBAPIError"})
       => store' = store]_vars

\* a promotion of a release that was not promoted before failed after its
\* status had been flushed, and the release is still not promoted
C4_Witness ==
    /\ last.op = "promote_release"
    /\ last.error \in {"IntegrityError", "DBAPIError"}
    /\ store.releases[last.args.release_id].status # "promoted"
    /\ DOMAIN store.deployments # {}

\* C5: after every execute_rollback that returns, exactly one rollback row
\* is new, it references the deployment and the selected target with the given
\* reason and initiator and status in-progress; the deployment is rolled_back
\* with completed_at set; its release is rolled_back; and one audit entry
\* execute_rollback for the deployment was appended.
C5_RollbackEffects ==
    [][RollbackReturned(last') =>
        LET d == last'.args.deployment_id
            created == DOMAIN store'.rollbacks \ DOMAIN store.rollbacks
            row == store'.rollbacks[last'.value]
            entry == store'.audit_logs[Len(store'.audit_logs)]
        IN  /\ created = {last'.value}
            /\ \A x \in DOMAIN store.rollbacks : store'.rollbacks[x] = store.rollbacks[x]
            /\ row.deployment_id = d
            /\ row.target_release_id = last'.args.target
            /\ row.reason = last'.args.reason
            /\ row.initiated_by = last'.args.user_id
            /\ row.status = "in-progress"
            /\ store'.deployments[d].status = "rolled_back"
            /\ store'.deployments[d].completed_at # NULL
            /\ store'.releases[store.deployments[d].release_id].status = "rolled_back"
            /\ Len(store'.audit_logs) = Len(store.audit_logs) + 1
            /\ SubSeq(store'.audit_logs, 1, Len(store.audit_logs)) = store.audit_logs
            /\ entry.action = "execute_rollback"
            /\ entry.resource_type = "deployment"
            /\ entry.resource_id = d]_vars

C5_Witness ==
    /\ RollbackReturned(last)
    /\ store.deployments[last.args.deployment_id].status = "rolled_back"
    /\ store.releases[store.deployments[last.args.deployment_id].release_id].status
            = "rolled_back"

\* C6: for every rollback row an operation creates (execute_rollback or
\* POST /api/rollbacks), the target release belongs to the service of the
\* release of the deployment rolled back, and has status completed when the
\* row is created.
C6_RollbackTargetInvariant ==
    [][\A x \in DOMAIN store'.rollbacks \ DOMAIN store.rollbacks :
        LET row == store'.rollbacks[x]
            R == store.deployments[row.deployment_id].release_id
            T == row.target_release_id
        IN  /\ store.releases[T].service_id = store.releases[R].service_id
            /\ store.releases[T].status = "completed"]_vars

StageUpdated(l) == l.op = "update_pipeline_stage" /\ l.error = "none"

\* C7: once a stage's completed_at is set, no update_pipeline_stage call
\* changes it, and likewise started_at, once set, is never overwritten.
C7_TimestampsNeverOverwritten ==
    [][\A x \in DOMAIN store.stages :
        /\ x \in DOMAIN store'.stages
        /\ store.stages[x].completed_at # NULL
            => store'.stages[x].completed_at = store.stages[x].completed_at
        /\ store.stages[x].started_at # NULL
            => store'.stages[x].started_at = store.stages[x].started_at]_vars

\* a stage was set to completed by the last call, and its completed_at is
\* that of an earlier call
C7_Witness ==
    /\ StageUpdated(last)
    /\ last.args.status = "completed"
    /\ store.stages[last.args.stage_id].completed_at # NULL
    /\ store.stages[last.args.stage_id].completed_at < now - 1

\* C8: update_pipeline_stage to in_progress on a stage with no started_at
\* sets started_at; to completed or failed on a stage with no completed_at
\* sets completed_at.
C8_EnteringStatusStamps ==
    [][StageUpdated(last') =>
        LET x == last'.args.stage_id
        IN  /\ (last'.args.status = "in_progress" /\ store.stages[x].started_at = NULL)
                => store'.stages[x].started_at # NULL
            /\ (last'.args.status \in {"completed", "failed"}
                    /\ store.stages[x].completed_at = NULL)
                => store'.stages[x].completed_at # NULL]_vars

SummaryDone(l) == l.op = "calculate_metrics_summary"

\* the in-window deployments of the summary the last call computed
Windowed ==
    {d \in DOMAIN store.deployments :
        /\ store.deployments[d].created_at >= now - last.args.days
        /\ store.deployments[d].created_at <= now}

\* C9: mean_time_to_recovery is the sum of completed_at - deployed_at in
\* minutes over the in-window deployments with both timestamps, divided by
\* their number, and 0 when there is none.
C9_MeanOverTimedDeployments ==
    SummaryDone(last) =>
        LET timed == {d \in Windowed : /\ store.deployments[d].deployed_at # NULL
                                       /\ store.deployments[d].completed_at # NULL}
            seconds == Sum([d \in timed |->
                              (store.deployments[d].completed_at
                               - store.deployments[d].deployed_at) * 86400], timed)
        IN  /\ last.error = "none"
            /\ IF timed = {}
               THEN last.value.mean_time_to_recovery.num = 0
               ELSE SameRatio(last.value.mean_time_to_recovery,
                              Ratio(seconds, 60 * Cardinality(timed)))

\* C10: change_failure_rate is 0 when no deployment is in the window and
\* failed / total * 100 otherwise, failed counting exactly the in-window
\* deployments with status failed; the computation never divides by zero.
C10_ChangeFailureRate ==
    SummaryDone(last) =>
        LET total == Cardinality(Windowed)
            failed == Cardinality({d \in Windowed : store.deployments[d].status = "failed"})
        IN  /\ last.error = "none"
            /\ last.value.total_deployments = total
            /\ last.value.failed_deployments = failed
            /\ last.value.change_failure_rate.den # 0
            /\ IF total = 0
               THEN last.value.change_failure_rate.num = 0
               ELSE last.value.change_failure_rate.num * total
                        = failed * 100 * last.value.change_failure_rate.den

\* a summary over a window with failed and other deployments
C10_Witness ==
    /\ SummaryDone(last)
    /\ last.error = "none"
    /\ last.value.total_deployments = 2
    /\ last.value.failed_deployments = 1
    /\ last.value.change_failure_rate.num = 100

\* C11: total_deployments is the number of deployments created in the
\* window, failed_deployments counts those with status failed, and
\* successful_deployments is total minus failed, so a pending or rolled_back
\* deployment in the window counts as successful.
C11_SuccessfulIsTotalMinusFailed ==
    SummaryDone(last) =>
        LET failed == {d \in Windowed : store.deployments[d].status = "failed"}
        IN  /\ last.error = "none"
            /\ last.value.total_deployments = Cardinality(Windowed)
            /\ last.value.successful_deployments = Cardinality(Windowed \ failed)
            /\ last.value.successful_deployments
                    = last.value.total_deployments - last.value.failed_deployments

\* a summary whose window holds a failed deployment and one rolled back:
\* the latter is the one success
C11_Witness ==
    /\ SummaryDone(last)
    /\ last.error = "none"
    /\ Cardinality(Windowed) = 2
    /\ \E d \in Windowed : store.deployments[d].status = "rolled_back"
    /\ \E d \in Windowed : store.deployments[d].status = "failed"
    /\ last.value.successful_deployments = 1

\* C12: every operation that changes a release, a deployment, a pipeline
\* stage or a rollback appends an audit record for the change.
C12_EveryChangeIsAudited ==
    [][(\/ store'.releases # store.releases
        \/ store'.deployments # store.deployments
        \/ store'.stages # store.stages
        \/ store'.rollbacks # store.rollbacks)
       => Len(store'.audit_logs) > Len(store.audit_logs)]_vars

\* C13: the audit log is append-only: every step keeps the rows already
\* written, in place and with every field as written, and only adds rows
\* after them.
C13_AuditLogAppendOnly ==
    [][/\ Len(store'.audit_logs) >= Len(store.audit_logs)
       /\ SubSeq(store'.audit_logs, 1, Len(store.audit_logs)) = store.audit_logs]_vars

\* the entry of a deployment's creation is still the first of the log after
\* the deployment was rolled back and the rollback was audited
C13_Witness ==
    /\ RollbackReturned(last)
    /\ Len(store.audit_logs) >= 2
    /\ store.audit_logs[1].action = "create_deployment"
    /\ store.audit_logs[1].resource_id = last.args.deployment_id
    /\ store.audit_logs[1].created_at < now - 1
    /\ store.audit_logs[Len(store.audit_logs)].action = "execute_rollback"

AuditRead(l) == l.op = "get_audit_logs"

\* C14: a get_audit_logs call filtered on a resource type T and a resource
\* id I, with a limit that covers the log, returns exactly the entries
\* written by log_action for (T, I), each with the details it was written
\* with, and no entry of another resource type or id.
C14_AuditRoundTrip ==
    [][(/\ AuditRead(last')
        /\ DOMAIN last'.args.filters = {"resource_type", "resource_id"}
        /\ last'.args.offset = 0
        /\ last'.args.limit >= Len(store.audit_logs)
        /\ \E i \in 1..Len(store.audit_logs) :
                /\ store.audit_logs[i].resource_type = last'.args.filters.resource_type
                /\ store.audit_logs[i].resource_id = last'.args.filters.resource_id)
       => /\ last'.error = "none"
          /\ \A i \in 1..Len(store.audit_logs) :
                (/\ store.audit_logs[i].resource_type = last'.args.filters.resource_type
                 /\ store.audit_logs[i].resource_id = last'.args.filters.resource_id)
                <=> \E j \in 1..Len(last'.value.logs) :
                        last'.value.logs[j] = store.audit_logs[i]]_vars

CreateReturned(l) == l.op = "create_deployment" /\ l.error = "none"

\* C15: a create_deployment that returns adds exactly one deployment row,
\* pending, deployed by the actor and with deployed_at set, changes no other
\* row, and appends exactly one audit entry create_deployment for the new
\* deployment whose metadata holds the release id, the environment id and
\* the status pending.
C15_CreateDeploymentEffects ==
    [][CreateReturned(last') =>
        LET d == last'.value
            entry == store'.audit_logs[Len(store'.audit_logs)]
        IN  /\ DOMAIN store'.deployments = DOMAIN store.deployments \cup {d}
            /\ d \notin DOMAIN store.deployments
            /\ \A x \in DOMAIN store.deployments :
                    store'.deployments[x] = store.deployments[x]
            /\ store'.deployments[d].release_id = last'.args.release_id
            /\ store'.deployments[d].environment_id = last'.args.environment_id
            /\ store'.deployments[d].status = "pending"
            /\ store'.deployments[d].deployed_by = last'.args.user_id
            /\ store'.deployments[d].deployed_at # NULL
            /\ store'.releases = store.releases
            /\ store'.stages = store.stages
            /\ store'.rollbacks = store.rollbacks
            /\ Len(store'.audit_logs) = Len(store.audit_logs) + 1
            /\ SubSeq(store'.audit_logs, 1, Len(store.audit_logs)) = store.audit_logs
            /\ entry.user_id = last'.args.user_id
            /\ entry.action = "create_deployment"
            /\ entry.resource_type = "deployment"
            /\ entry.resource_id = d
            /\ entry.details = [release_id |-> Str(last'.args.release_id),
                                environment_id |-> Str(last'.args.environment_id),
                                status |-> "pending"]]_vars

\* a second deployment of release 2 was created and audited
C15_Witness ==
    /\ CreateReturned(last)
    /\ last.value = 2
    /\ store.deployments[2].release_id = 2
    /\ store.deployments[2].status = "pending"
    /\ store.deployments[2].deployed_at = now - 1
    /\ store.audit_logs[Len(store.audit_logs)].resource_id = 2

\* the errors by which a service reports that an id does not resolve
NotFound(e) ==
    e \in {"ValueError: release not found", "ValueError: deployment not found",
           "ValueError: environment not found"}

\* C16: a create_deployment whose release id or environment id resolves to
\* no row fails with a NotFound error and adds no deployment and no audit
\* entry, also when promote_release reaches it with a target environment
\* that does not exist (persistence faults apart).
C16_CreateDeploymentNotFound ==
    [][(/\ last'.error # "DBAPIError"
        /\ \/ /\ last'.op = "create_deployment"
              /\ \/ last'.args.release_id \notin DOMAIN store.releases
                 \/ last'.args.environment_id \notin Environments
           \/ /\ last'.op = "promote_release"
              /\ last'.args.release_id \in DOMAIN store.releases
              /\ last'.args.target_env_id \notin Environments)
       => /\ NotFound(last'.error)
          /\ store' = store]_vars

\* C17: execute_rollback fails with a NotFound error and changes nothing
\* when the deployment id does not resolve, and fails with a NotFound error,
\* and no other, when the deployment was found and its release does not
\* resolve.
C17_RollbackNotFound ==
    [][/\ (/\ last'.op = "execute_rollback"
           /\ inflight = NoRequest
           /\ last'.args.deployment_id \notin DOMAIN store.deployments)
          => (NotFound(last'.error) /\ store' = store)
       /\ (/\ inflight # NoRequest
           /\ inflight' = NoRequest
           /\ inflight.release_id \notin DOMAIN store.releases)
          => NotFound(last'.error)]_vars

\* C18: promote_release raises NotFound and changes nothing when the release
\* does not exist; on an existing release, whatever its status (draft,
\* published, promoted, deployed, rolled_back, failed, completed), it returns
\* unless the store refuses a write, leaves the status promoted, so that a
\* second application leaves it as the first did, and creates a deployment
\* of its own each time.
C18_PromoteFromEveryStatus ==
    [][last'.op = "promote_release" =>
        LET R == last'.args.release_id
        IN  /\ R \notin DOMAIN store.releases
                => (last'.error = "ValueError: release not found" /\ store' = store)
            /\ R \in DOMAIN store.releases
                => /\ last'.error \in {"none", "DBAPIError", "IntegrityError"}
                   /\ last'.error = "IntegrityError"
                        => last'.args.target_env_id \notin Environments
                   /\ last'.error = "none"
                        => /\ store'.releases[R].status = "promoted"
                           /\ [store'.releases[R] EXCEPT !.status = store.releases[R].status]
                                = store.releases[R]
                           /\ last'.value \notin DOMAIN store.deployments
                           /\ DOMAIN store'.deployments
                                = DOMAIN store.deployments \cup {last'.value}
                           /\ store'.deployments[last'.value].release_id = R]_vars

\* a release promoted twice is promoted and owns the deployments of both
\* promotions
C18_Witness ==
    /\ PromoteReturned(last)
    /\ store.releases[last.args.release_id].status = "promoted"
    /\ Cardinality({d \in DOMAIN store.deployments :
            store.deployments[d].release_id = last.args.release_id}) = 2
    /\ Len(store.audit_logs) = 4

\* C19: a call of a mutating API handler that ends in an error response
\* (404 or 500) leaves the committed store as it was before the call.
C19_ErrorResponseLeavesStore ==
    [][(/\ last'.op \in {"create_release", "update_release", "delete_release",
                         "deploy_release", "post_deployment", "update_deployment",
                         "delete_deployment", "approve_deployment",
                         "rollback_deployment", "create_rollback", "create_approval",
                         "update_approval", "delete_approval"}
        /\ last'.error # "none")
       => store' = store]_vars

\* C20: every rollback row has one of the statuses pending, in_progress,
\* completed, failed.
C20_RollbackStatusDomain ==
    \A x \in DOMAIN store.rollbacks :
        store.rollbacks[x].status \in {"pending", "in_progress", "completed", "failed"}

\* C21: every deployment's release_id resolves to a release, and a
\* delete_release on a release that deployments reference does not remove
\* the release.
C21_ReferencedReleaseStays ==
    [][/\ \A d \in DOMAIN store'.deployments :
            store'.deployments[d].release_id \in DOMAIN store'.releases
       /\ (/\ last'.op = "delete_release"
           /\ \E d \in DOMAIN store.deployments :
                store.deployments[d].release_id = last'.args.release_id)
          => last'.args.release_id \in DOMAIN store'.releases]_vars

\* C22: no two releases of a service have the same version, and a
\* create_release or an update_release that would give a release the
\* (service, version) pair of another one is rejected and changes nothing.
C22_VersionUniquePerService ==
    [][/\ \A x, y \in DOMAIN store'.releases :
            (/\ store'.releases[x].service_id = store'.releases[y].service_id
             /\ store'.releases[x].version = store'.releases[y].version) => x = y
       /\ (/\ last'.op = "create_release"
           /\ \E x \in DOMAIN store.releases :
                /\ store.releases[x].service_id = last'.args.service_id
                /\ store.releases[x].version = last'.args.version)
          => (last'.error # "none" /\ store' = store)
       /\ (/\ last'.op = "update_release"
           /\ last'.args.release_id \in DOMAIN store.releases
           /\ "version" \in DOMAIN last'.args.release_data
           /\ \E x \in DOMAIN store.releases \ {last'.args.release_id} :
                /\ store.releases[x].service_id
                        = store.releases[last'.args.release_id].service_id
                /\ store.releases[x].version = last'.args.release_data.version)
          => (last'.error # "none" /\ store' = store)]_vars

\* the in-window deployments of the trends call that `l` records
TrendWindow(l) == CreatedSince(store, now - timedelta(l.args.days))

\* the calendar day of a deployment
DayOf(d) == date(store.deployments[d].created_at)

\* C23: trends returns one entry per calendar date of an in-window
\* deployment; each deployment is counted in exactly one entry and in exactly
\* one of successful (completed), failed (failed) or pending (any other
\* status), so total = successful + failed + pending; the entries are in
\* strictly ascending date order.
C23_TrendsPerDate ==
    last.op = "get_deployment_trends" =>
        LET entries == last.value
            W == TrendWindow(last)
        IN  /\ last.error = "none"
            /\ {entries[i].date : i \in DOMAIN entries} = {isoformat(DayOf(d)) : d \in W}
            /\ \A i \in DOMAIN entries :
                LET On == {d \in W : isoformat(DayOf(d)) = entries[i].date}
                    Of(statuses) ==
                        Cardinality({d \in On : store.deployments[d].status \in statuses})
                IN  /\ entries[i].total = Cardinality(On)
                    /\ entries[i].successful = Of({"completed"})
                    /\ entries[i].failed = Of({"failed"})
                    /\ entries[i].pending = Of({"pending", "rolled_back", "in_progress"})
                    /\ entries[i].total
                        = entries[i].successful + entries[i].failed + entries[i].pending
            /\ \A i, j \in DOMAIN entries :
                i < j => \A x, y \in W :
                            (/\ entries[i].date = isoformat(DayOf(x))
                             /\ entries[j].date = isoformat(DayOf(y))) => DayOf(x) < DayOf(y)

\* a trends call returned two entries, for the 9th and the 10th, the second
\* counting a rolled back deployment as pending
C23_Witness ==
    /\ last.op = "get_deployment_trends"
    /\ last.error = "none"
    /\ Len(last.value) = 2
    /\ last.value[1].date = isoformat(9)
    /\ last.value[2].date = isoformat(10)
    /\ last.value[2].pending = 1
    /\ \E d \in TrendWindow(last) : store.deployments[d].status = "rolled_back"

\* C24: a by_environment that answers reports for each environment group its total
\* in-window deployments, its successes (status completed), its failures
\* (status failed) and failure rate = failures / total * 100, the groups in
\* non-increasing order of total.
C24_ByEnvironment ==
    (last.op = "get_metrics_by_environment" /\ last.error = "none") =>
        LET groups == last.value
            W == TrendWindow(last)
        IN  /\ \A i \in DOMAIN groups :
                \E e \in Environments :
                    LET Of == {d \in W : store.deployments[d].environment_id = e}
                        failures ==
                            Cardinality({d \in Of : store.deployments[d].status = "failed"})
                    IN  /\ groups[i].id = Str(e)
                        /\ groups[i].total_deployments = Cardinality(Of)
                        /\ groups[i].successful_deployments
                            = Cardinality({d \in Of : store.deployments[d].status = "completed"})
                        /\ groups[i].failed_deployments = failures
                        /\ SameRatio(groups[i].failure_rate,
                                     ChangeFailureRate(failures, Cardinality(Of)))
            /\ \A i, j \in DOMAIN groups :
                i < j => groups[i].total_deployments >= groups[j].total_deployments

\* C25: a by_service that answers counts every in-window deployment under the service of
\* its release, so the per-service totals sum to the number of in-window
\* deployments.
C25_ByService ==
    (last.op = "get_metrics_by_service" /\ last.error = "none") =>
        LET groups == last.value
            W == TrendWindow(last)
        IN  /\ \A i \in DOMAIN groups :
                \E sv \in Services :
                    /\ groups[i].id = Str(sv)
                    /\ groups[i].total_deployments
                        = Cardinality({d \in W :
                            store.releases[store.deployments[d].release_id].service_id = sv})
            /\ Sum([i \in DOMAIN groups |-> groups[i].total_deployments], DOMAIN groups)
                = Cardinality(W)

\* every concurrent promotion has returned
PromotionsDone ==
    /\ inflight # NoRequest
    /\ inflight.op = "promote_release"
    /\ \A c \in Calls : inflight.calls[c].pc = "done"

\* the stages that reference a deployment
StagesOf(d) == {x \in DOMAIN store.stages : store.stages[x].deployment_id = d}

\* C26: for every interleaving of the concurrent promote_release calls on
\* one release, every call completes, the release ends promoted, and each
\* call has a deployment of its own that owns exactly its five stages with
\* orders 0..4: no stage is lost, duplicated or attached to the deployment
\* of another call.
C26_ConcurrentPromotions ==
    /\ (inflight # NoRequest) ~> PromotionsDone
    /\ [](PromotionsDone =>
            LET mine == [c \in Calls |-> inflight.calls[c].deployment]
            IN  /\ store.releases[inflight.release_id].status = "promoted"
                /\ \A c, o \in Calls : mine[c] = mine[o] => c = o
                /\ DOMAIN store.deployments = {mine[c] : c \in Calls}
                /\ \A c \in Calls :
                    /\ store.deployments[mine[c]].release_id = inflight.release_id
                    /\ Cardinality(StagesOf(mine[c])) = Len(stage_names)
                    /\ \A idx \in 0..(Len(stage_names) - 1) :
                        \E x \in StagesOf(mine[c]) :
                            /\ store.stages[x].order = idx
                            /\ store.stages[x].name = stage_names[idx + 1]
                /\ Cardinality(DOMAIN store.stages) = MaxCalls * Len(stage_names))

\* both promotions returned, the second one having loaded the release
\* before the first was committed and written it again
C26_Witness ==
    /\ PromotionsDone
    /\ \A c \in Calls : inflight.calls[c].locked
    /\ Cardinality(DOMAIN store.deployments) = MaxCalls

\* what the operations write to a release's status: never completed
StatusWrites ==
    /\ \A r \in DOMAIN store'.releases : store'.releases[r].status # "completed"
    /\ PromoteReturned(last') => store'.releases[last'.args.release_id].status = "promoted"
    /\ (last'.op = "deploy_release" /\ last'.error = "none")
        => store'.releases[last'.args.release_id].status = "deployed"
    /\ (last'.op = "create_release" /\ last'.error = "none")
        => store'.releases[last'.value].status = "draft"
    /\ (/\ last'.op = "update_release"
        /\ last'.error = "none"
        /\ "status" \in DOMAIN last'.args.release_data)
        => /\ last'.args.release_data.status \in {"draft", "published", "deployed", "failed"}
           /\ store'.releases[last'.args.release_id].status
                = last'.args.release_data.status

\* C28 as stated: no operation sets a release's status to completed, and
\* from a store without a completed release every execute_rollback call
\* fails with 'no previous stable release'.
C28_EveryRollbackFindsNoTarget ==
    [][/\ StatusWrites
       /\ last'.op = "execute_rollback"
          => last'.error = "ValueError: no previous stable release"]_vars

\* C28, amended: no operation sets a release's status to completed, and
\* from a store without a completed release every execute_rollback call on
\* a deployment that exists fails with 'no previous stable release'; a call
\* on a deployment that does not exist fails with 'deployment not found'.
C28_NoReleaseCompletes ==
    [][/\ StatusWrites
       /\ last'.op = "execute_rollback"
          => last'.error =
                IF last'.args.deployment_id \in DOMAIN store.deployments
                THEN "ValueError: no previous stable release"
                ELSE "ValueError: deployment not found"]_vars

\* a release was promoted, and the rollback of its deployment found no
\* completed release
C28_Witness ==
    /\ last.op = "execute_rollback"
    /\ last.args.deployment_id \in DOMAIN store.deployments
    /\ last.error = "ValueError: no previous stable release"
    /\ \E r \in DOMAIN store.releases : store.releases[r].status = "promoted"

\* C29: an update_pipeline_stage that returns changes only the status,
\* output, started_at and completed_at of the targeted stage: every other
\* stage, every deployment, release, rollback and the audit log stay as they
\* were, and the stage's output stays when no output is supplied.  A
\* deployment whose five stages are all completed keeps its status.
C29_StageUpdateFrame ==
    [][StageUpdated(last') =>
        LET T == last'.args.stage_id
        IN  /\ DOMAIN store'.stages = DOMAIN store.stages
            /\ \A x \in DOMAIN store.stages \ {T} : store'.stages[x] = store.stages[x]
            /\ [store'.stages[T] EXCEPT !.status = store.stages[T].status,
                                        !.output = store.stages[T].output,
                                        !.started_at = store.stages[T].started_at,
                                        !.completed_at = store.stages[T].completed_at]
                    = store.stages[T]
            /\ ~HasText(last'.args.output) => store'.stages[T].output = store.stages[T].output
            /\ store'.deployments = store.deployments
            /\ store'.releases = store.releases
            /\ store'.rollbacks = store.rollbacks
            /\ store'.approvals = store.approvals
            /\ store'.audit_logs = store.audit_logs]_vars

\* the last of the five stages of a deployment was set to completed by a
\* call that supplied no output, and the deployment is still pending
C29_Witness ==
    /\ StageUpdated(last)
    /\ last.args.status = "completed"
    /\ ~HasText(last.args.output)
    /\ \E d \in DOMAIN store.deployments :
        /\ store.deployments[d].status = "pending"
        /\ Cardinality(StagesOf(d)) = Len(stage_names)
        /\ \A x \in StagesOf(d) :
            store.stages[x].status = "completed" /\ store.stages[x].output = "log"

\* C27: get_audit_logs returns (logs, total): logs holds only entries that
\* satisfy every supplied filter, newest first, skipping offset entries and
\* holding at most limit entries; total is the number of entries matching
\* the filters, whatever limit and offset are.
C27_AuditQueryContract ==
    [][AuditRead(last') =>
        /\ last'.error = "none"
        /\ LET logs == last'.value.logs
               filters == last'.args.filters
               matching == Matching(store, filters)
               rest == IF Len(matching) > last'.args.offset
                       THEN Len(matching) - last'.args.offset ELSE 0
           IN  /\ \A i \in DOMAIN logs :
                    /\ \E j \in DOMAIN matching : matching[j] = logs[i]
                    /\ \A key \in Conditions(filters) : Satisfies(logs[i], filters, key)
               /\ \A i, j \in DOMAIN logs :
                    i < j => logs[i].created_at >= logs[j].created_at
               /\ Len(logs) = (IF rest < last'.args.limit THEN rest ELSE last'.args.limit)
               /\ last'.value.total = Len(matching)]_vars

\* C30: a deployment whose status is rolled_back has at least one Rollback
\* row that references it.
C30_RolledBackHasRollback ==
    \A d \in DOMAIN store.deployments :
        store.deployments[d].status = "rolled_back" =>
            \E r \in DOMAIN store.rollbacks : store.rollbacks[r].deployment_id = d

====
